---------------------------- MODULE Spec2Model ----------------------------
(***************************************************************************)
(* A model of pyeda/boolalg/boolfunc.py: the variable registry (var,       *)
(* Variable.__init__), the point/term conversions (num2point, num2upoint,  *)
(* num2term, point2upoint, iter_points, iter_upoints) and the derived      *)
(* operations of Function (iter_cofactors, cofactors, __add__, __radd__).  *)
(***************************************************************************)
EXTENDS Integers, Sequences, FiniteSets, TLC

VARIABLES
    VARIABLES_,   \* boolfunc.VARIABLES : dict (names, indices) -> Variable
    UNIQIDS,      \* boolfunc._UNIQIDS  : dict (names, indices) -> int
    COUNT,        \* boolfunc._COUNT
    inputs,       \* the (name, index) arguments the callers draw from
    pc,           \* per caller: position inside var / Variable.__init__
    calls,        \* per caller: calls of var still to be made
    arg,          \* per caller: the (name, index) arguments of the current call
    key,          \* per caller: the local (names, indices)
    uniqid,       \* per caller: the local uniqid of Variable.__init__
    cnt,          \* per caller: the value of _COUNT loaded by `_COUNT += 1`
    lock,         \* per caller: the Lock object created by `with threading.Lock()`
    ret,          \* per caller: outcome of the last finished call
    log,          \* the finished calls that returned a Variable, in order
    num,          \* codec input: num
    vs,           \* codec input: the sequence of Variables (fs is made of them)
    conj,         \* codec input: conj
    done,         \* the conversions applied to the input so far
    point,        \* num2point(num, vs)
    upoint,       \* num2upoint(num, vs)
    pupoint,      \* point2upoint(point)
    term,         \* num2term(num, fs, conj)
    it_num,       \* iter_points(vs): the loop variable of the generator
    points,       \* iter_points(vs): the points yielded so far
    self,         \* the Function the derived operations are applied to
    vsarg,        \* the argument vs of cofactors
    other,        \* the other operand of +
    fop,          \* the operation applied to f
    cofs,         \* what f.cofactors(vs) returned
    sum           \* what f.__add__(other) or f.__radd__(other) returned

regvars == <<VARIABLES_, UNIQIDS, COUNT, inputs, pc, calls, arg, key, uniqid, cnt, lock, ret, log>>
codvars == <<num, vs, conj, done, point, upoint, pupoint, term, it_num, points>>

funvars == <<self, vsarg, other, fop, cofs, sum>>

vars == <<regvars, codvars, funvars>>

(***************************************************************************)
(* Python values.  A str is the sequence of its characters; a tuple is the *)
(* sequence of its items.  Every value has the same four fields so that    *)
(* values of different Python types can be compared.                       *)
(***************************************************************************)
PyItem(t, s, n) == [t |-> t, s |-> s, n |-> n]
PyStr(s)    == [t |-> "str",      s |-> s,    n |-> 0, items |-> <<>>]
PyInt(n)    == [t |-> "int",      s |-> <<>>, n |-> n, items |-> <<>>]
PyNone      == [t |-> "NoneType", s |-> <<>>, n |-> 0, items |-> <<>>]
PyTuple(xs) == [t |-> "tuple",    s |-> <<>>, n |-> 0, items |-> xs]
ItemOf(v)   == PyItem(v.t, v.s, v.n)

Letters   == {"a", "b", "A", "z"}
WordChars == Letters \cup {"0", "1", "_"}

\* re.match(r"^[a-zA-Z][a-zA-Z0-9_]*$", name): `$` also matches just before
\* a newline that ends the string.
NameMatches(s) ==
    LET body == IF Len(s) > 1 /\ s[Len(s)] = "\n" THEN SubSeq(s, 1, Len(s) - 1) ELSE s
    IN  /\ Len(body) >= 1
        /\ body[1] \in Letters
        /\ \A i \in 2..Len(body) : body[i] \in WordChars

NoError == "none"

\* var, lines 39-46: names
NamesOf(name) ==
    IF name.t = "str" THEN <<ItemOf(name)>> ELSE name.items

\* var, lines 60-70: indices
IndicesOf(index) ==
    IF index.t = "NoneType" THEN <<>>
    ELSE IF index.t = "int" THEN <<ItemOf(index)>>
    ELSE index.items

\* The first item of xs, from position i on, that the loop of lines 51-58
\* rejects, as the exception it raises.
RECURSIVE NameLoop(_, _)
NameLoop(xs, i) ==
    IF i > Len(xs) THEN NoError
    ELSE IF xs[i].t # "str" THEN "TypeError"
    ELSE IF ~NameMatches(xs[i].s) THEN "ValueError"
    ELSE NameLoop(xs, i + 1)

\* The same for the loop of lines 72-79.
RECURSIVE IndexLoop(_, _)
IndexLoop(xs, i) ==
    IF i > Len(xs) THEN NoError
    ELSE IF xs[i].t # "int" THEN "TypeError"
    ELSE IF xs[i].n < 0 THEN "ValueError"
    ELSE IndexLoop(xs, i + 1)

\* var, lines 39-79: the exception the argument checks raise, in the order
\* of the code, or NoError.
VarError(name, index) ==
    IF name.t \notin {"str", "tuple"} THEN "TypeError"
    ELSE IF Len(NamesOf(name)) = 0 THEN "ValueError"
    ELSE IF NameLoop(NamesOf(name), 1) # NoError THEN NameLoop(NamesOf(name), 1)
    ELSE IF index.t \notin {"NoneType", "int", "tuple"} THEN "TypeError"
    ELSE IndexLoop(IndicesOf(index), 1)

\* The key (names, indices) of lines 82-85: a tuple of strs and a tuple of ints.
KeyOf(name, index) ==
    [names   |-> [i \in 1..Len(NamesOf(name)) |-> NamesOf(name)[i].s],
     indices |-> [i \in 1..Len(IndicesOf(index)) |-> IndicesOf(index)[i].n]]

NoKey == [names |-> <<>>, indices |-> <<>>]

\* Argument values the callers draw from.
NameInputs ==
    { PyStr(<<"a">>),
      PyTuple(<<PyItem("str", <<"a">>, 0)>>),
      PyTuple(<<PyItem("str", <<"b", "_">>, 0), PyItem("str", <<"a">>, 0)>>),
      PyStr(<<"a", "\n">>),
      PyStr(<<"1", "a">>),
      PyTuple(<<>>),
      PyInt(5),
      PyTuple(<<PyItem("str", <<"a">>, 0), PyItem("int", <<>>, 5)>>) }

IndexInputs ==
    { PyNone,
      PyInt(0),
      PyTuple(<<PyItem("int", <<>>, 0)>>),
      PyTuple(<<PyItem("int", <<>>, 0), PyItem("int", <<>>, 1)>>),
      PyInt(-1),
      PyStr(<<"a">>),
      PyTuple(<<PyItem("int", <<>>, 0), PyItem("str", <<"a">>, 0)>>) }

Args == [name : NameInputs, index : IndexInputs]

\* The arguments concurrent callers draw from: "a" and ("a", ), without an
\* index and with the index 0, and a name that is an int.
ConcArgs ==
    [name : {PyStr(<<"a">>), PyTuple(<<PyItem("str", <<"a">>, 0)>>)},
     index : {PyNone, PyInt(0)}]
    \cup {[name |-> PyInt(5), index |-> PyNone]}

Threads == {1, 2}
MaxSeqCalls == 3
MaxConcCalls == 1

\* a counter that starts at 0
InitCountZero == 1 - 1

\* _COUNT = 1
InitCount == 1

EmptyDict == [k \in {} |-> 0]

\* d[k] = v on a dict
DictSet(d, k, v) == [x \in DOMAIN d \cup {k} |-> IF x = k THEN v ELSE d[x]]

\* Variable.__init__, lines 242-244
NewVariable(names, indices, id) ==
    [names |-> names, indices |-> indices, uniqid |-> id]

NoVariable == NewVariable(<<>>, <<>>, 0)
NoRet == [kind |-> "none", exc |-> NoError, v |-> NoVariable]

\* `_COUNT += 1` with the increment lost
IncrementedLost(c) == c

\* `_COUNT += 1`, the value stored
Incremented(c) == c + 1

InitRegistry(budget, from) ==
    /\ inputs = from
    /\ VARIABLES_ = EmptyDict
    /\ UNIQIDS = EmptyDict
    /\ COUNT = InitCount
    /\ pc = [t \in Threads |-> "idle"]
    /\ calls = budget
    /\ arg = [t \in Threads |-> [name |-> PyNone, index |-> PyNone]]
    /\ key = [t \in Threads |-> NoKey]
    /\ uniqid = [t \in Threads |-> 0]
    /\ cnt = [t \in Threads |-> 0]
    /\ lock = [t \in Threads |-> FALSE]
    /\ ret = [t \in Threads |-> NoRet]
    /\ log = <<>>

\* var, lines 39-79: a caller enters var and the arguments are checked.
var_enter(t) ==
    /\ pc[t] = "idle"
    /\ calls[t] > 0
    /\ \E a \in inputs :
        /\ arg' = [arg EXCEPT ![t] = a]
        /\ IF VarError(a.name, a.index) # NoError
           THEN /\ ret' = [ret EXCEPT ![t] =
                             [kind |-> "raise", exc |-> VarError(a.name, a.index),
                              v |-> NoVariable]]
                /\ UNCHANGED <<pc, key>>
           ELSE /\ key' = [key EXCEPT ![t] = KeyOf(a.name, a.index)]
                /\ pc' = [pc EXCEPT ![t] = "var_lookup"]
                /\ UNCHANGED ret
    /\ calls' = [calls EXCEPT ![t] = @ - 1]
    /\ UNCHANGED <<VARIABLES_, UNIQIDS, COUNT, inputs, uniqid, cnt, lock, log>>
    /\ UNCHANGED <<codvars, funvars>>

Return(t, v) ==
    /\ ret' = [ret EXCEPT ![t] = [kind |-> "ok", exc |-> NoError, v |-> v]]
    /\ log' = Append(log, [arg |-> arg[t], key |-> key[t], uniqid |-> v.uniqid,
                            thread |-> t])
    /\ pc' = [pc EXCEPT ![t] = "idle"]

\* var, lines 81-84 and 86: the lookup in VARIABLES; a hit returns.
var_lookup(t) ==
    /\ pc[t] = "var_lookup"
    /\ IF key[t] \in DOMAIN VARIABLES_
       THEN Return(t, VARIABLES_[key[t]])
       ELSE /\ pc' = [pc EXCEPT ![t] = "init_lock"]
            /\ UNCHANGED <<ret, log>>
    /\ UNCHANGED <<VARIABLES_, UNIQIDS, COUNT, inputs, calls, arg, key, uniqid, cnt, lock>>
    /\ UNCHANGED <<codvars, funvars>>

\* Variable.__init__, line 234: `with threading.Lock()` creates a Lock of its
\* own and acquires it; no other caller holds a reference to this Lock.
init_lock(t) ==
    /\ pc[t] = "init_lock"
    /\ ~lock[t]
    /\ lock' = [lock EXCEPT ![t] = TRUE]
    /\ pc' = [pc EXCEPT ![t] = "init_lookup"]
    /\ UNCHANGED <<VARIABLES_, UNIQIDS, COUNT, inputs, calls, arg, key, uniqid, cnt, ret, log>>
    /\ UNCHANGED <<codvars, funvars>>

\* lines 235-237: the lookup in _UNIQIDS
init_lookup(t) ==
    /\ pc[t] = "init_lookup"
    /\ IF key[t] \in DOMAIN UNIQIDS
       THEN /\ uniqid' = [uniqid EXCEPT ![t] = UNIQIDS[key[t]]]
            /\ pc' = [pc EXCEPT ![t] = "init_exit"]
       ELSE /\ pc' = [pc EXCEPT ![t] = "init_read"]
            /\ UNCHANGED uniqid
    /\ UNCHANGED <<VARIABLES_, UNIQIDS, COUNT, inputs, calls, arg, key, cnt, lock, ret, log>>
    /\ UNCHANGED <<codvars, funvars>>

\* line 238: uniqid = _COUNT
init_read(t) ==
    /\ pc[t] = "init_read"
    /\ uniqid' = [uniqid EXCEPT ![t] = COUNT]
    /\ pc' = [pc EXCEPT ![t] = "init_load"]
    /\ UNCHANGED <<VARIABLES_, UNIQIDS, COUNT, inputs, calls, arg, key, cnt, lock, ret, log>>
    /\ UNCHANGED <<codvars, funvars>>

\* line 239: `_COUNT += 1` loads the global ...
init_load(t) ==
    /\ pc[t] = "init_load"
    /\ cnt' = [cnt EXCEPT ![t] = COUNT]
    /\ pc' = [pc EXCEPT ![t] = "init_store"]
    /\ UNCHANGED <<VARIABLES_, UNIQIDS, COUNT, inputs, calls, arg, key, uniqid, lock, ret, log>>
    /\ UNCHANGED <<codvars, funvars>>

\* ... and stores the sum.
init_store(t) ==
    /\ pc[t] = "init_store"
    /\ COUNT' = Incremented(cnt[t])
    /\ pc' = [pc EXCEPT ![t] = "init_insert"]
    /\ UNCHANGED <<VARIABLES_, UNIQIDS, inputs, calls, arg, key, uniqid, cnt, lock, ret, log>>
    /\ UNCHANGED <<codvars, funvars>>

\* line 240: _UNIQIDS[(names, indices)] = uniqid
init_insert(t) ==
    /\ pc[t] = "init_insert"
    /\ UNIQIDS' = DictSet(UNIQIDS, key[t], uniqid[t])
    /\ pc' = [pc EXCEPT ![t] = "init_exit"]
    /\ UNCHANGED <<VARIABLES_, COUNT, inputs, calls, arg, key, uniqid, cnt, lock, ret, log>>
    /\ UNCHANGED <<codvars, funvars>>

\* the end of the with block: the Lock is released
init_exit(t) ==
    /\ pc[t] = "init_exit"
    /\ lock' = [lock EXCEPT ![t] = FALSE]
    /\ pc' = [pc EXCEPT ![t] = "var_store"]
    /\ UNCHANGED <<VARIABLES_, UNIQIDS, COUNT, inputs, calls, arg, key, uniqid, cnt, ret, log>>
    /\ UNCHANGED <<codvars, funvars>>

\* Variable.__init__, lines 242-244, then var, lines 85-86
var_store(t) ==
    /\ pc[t] = "var_store"
    /\ LET v == NewVariable(key[t].names, key[t].indices, uniqid[t])
       IN  /\ VARIABLES_' = DictSet(VARIABLES_, key[t], v)
           /\ Return(t, v)
    /\ UNCHANGED <<UNIQIDS, COUNT, inputs, calls, arg, key, uniqid, cnt, lock>>
    /\ UNCHANGED <<codvars, funvars>>

RegNext ==
    \E t \in Threads :
        \/ var_enter(t)
        \/ var_lookup(t)
        \/ init_lock(t)
        \/ init_lookup(t)
        \/ init_read(t)
        \/ init_load(t)
        \/ init_store(t)
        \/ init_insert(t)
        \/ init_exit(t)
        \/ var_store(t)

(***************************************************************************)
(* Point / term conversions                                                *)
(***************************************************************************)
MaxN == 3

\* The Variables var("a"), var("b"), var("c") of a process that interned
\* them in this order.
VarPool ==
    { NewVariable(<< <<"a">> >>, <<>>, 1),
      NewVariable(<< <<"b">> >>, <<>>, 2),
      NewVariable(<< <<"c">> >>, <<>>, 3) }

SeqsUpTo(S, n) == UNION { [1..k -> S] : k \in 0..n }

\* pyeda.util.bit_on(num, bit): bit `bit` of num, bit 0 the least significant
bit_on(n, bit) == (n \div (2 ^ bit)) % 2

\* A literal: a Variable used as a Function, or its complement.
Lit(v) == [v |-> v, neg |-> FALSE]

\* Function.__invert__ of a literal
Invert(f) == [f EXCEPT !.neg = ~@]

\* fs, the Variables of vs as Functions
FsOf(xs) == [i \in 1..Len(xs) |-> Lit(xs[i])]

\* {v: bit_on(num, i) for i, v in enumerate(vs)}, the first n items done:
\* a later item with the same key replaces the earlier value.
RECURSIVE PointUpTo(_, _, _)
PointUpTo(n, xs, k) ==
    IF k = 0 THEN EmptyDict
    ELSE DictSet(PointUpTo(n, xs, k - 1), xs[k], bit_on(n, k - 1))

num2point(n, xs) == PointUpTo(n, xs, Len(xs))

\* The loop of num2upoint, the first k items done.
RECURSIVE UpointUpTo(_, _, _)
UpointUpTo(n, xs, k) ==
    IF k = 0 THEN << {}, {} >>
    ELSE LET up == UpointUpTo(n, xs, k - 1)
         IN  IF bit_on(n, k - 1) = 0
             THEN << up[1] \cup {xs[k].uniqid}, up[2] >>
             ELSE << up[1], up[2] \cup {xs[k].uniqid} >>

\* num2upoint with the two sets of the pair exchanged
num2upoint_exchanged(n, xs) == << UpointUpTo(n, xs, Len(xs))[2], UpointUpTo(n, xs, Len(xs))[1] >>

num2upoint(n, xs) == UpointUpTo(n, xs, Len(xs))

\* num2term with the branches of conj exchanged
num2term_exchanged(n, fs, cj) ==
    IF cj
    THEN [i \in 1..Len(fs) |-> IF bit_on(n, i - 1) = 1 THEN fs[i] ELSE Invert(fs[i])]
    ELSE [i \in 1..Len(fs) |-> IF bit_on(n, i - 1) = 1 THEN Invert(fs[i]) ELSE fs[i]]

\* num2term reading bit i + 1 for item i
num2term_shifted(n, fs, cj) ==
    IF cj
    THEN [i \in 1..Len(fs) |-> IF bit_on(n, i) = 1 THEN Invert(fs[i]) ELSE fs[i]]
    ELSE [i \in 1..Len(fs) |-> IF bit_on(n, i) = 1 THEN fs[i] ELSE Invert(fs[i])]

num2term(n, fs, cj) ==
    IF cj
    THEN [i \in 1..Len(fs) |-> IF bit_on(n, i - 1) = 1 THEN Invert(fs[i]) ELSE fs[i]]
    ELSE [i \in 1..Len(fs) |-> IF bit_on(n, i - 1) = 1 THEN fs[i] ELSE Invert(fs[i])]

point2upoint(p) ==
    << { v.uniqid : v \in { w \in DOMAIN p : p[w] = 0 } },
       { v.uniqid : v \in { w \in DOMAIN p : p[w] = 1 } } >>

\* range(2 * len(vs))
RangeEndTwice(xs) == 2 * Len(xs)

\* range(1 << len(vs)): the end of the range
RangeEnd(xs) == 2 ^ Len(xs)

CodecInputs ==
    /\ num \in 0..(2 ^ MaxN - 1)
    /\ vs \in SeqsUpTo(VarPool, MaxN)
    /\ conj \in BOOLEAN
    /\ done = {}
    /\ point = EmptyDict
    /\ upoint = << {}, {} >>
    /\ pupoint = << {}, {} >>
    /\ term = <<>>
    /\ it_num = 0
    /\ points = <<>>

IdleCodec ==
    /\ num = 0
    /\ vs = <<>>
    /\ conj = FALSE
    /\ done = {}
    /\ point = EmptyDict
    /\ upoint = << {}, {} >>
    /\ pupoint = << {}, {} >>
    /\ term = <<>>
    /\ it_num = 0
    /\ points = <<>>

num2point_call ==
    /\ "num2point" \notin done
    /\ point' = num2point(num, vs)
    /\ done' = done \cup {"num2point"}
    /\ UNCHANGED <<num, vs, conj, upoint, pupoint, term, it_num, points>>
    /\ UNCHANGED <<regvars, funvars>>

num2upoint_call ==
    /\ "num2upoint" \notin done
    /\ upoint' = num2upoint(num, vs)
    /\ done' = done \cup {"num2upoint"}
    /\ UNCHANGED <<num, vs, conj, point, pupoint, term, it_num, points>>
    /\ UNCHANGED <<regvars, funvars>>

\* point2upoint applied to the point num2point returned
point2upoint_call ==
    /\ "num2point" \in done
    /\ "point2upoint" \notin done
    /\ pupoint' = point2upoint(point)
    /\ done' = done \cup {"point2upoint"}
    /\ UNCHANGED <<num, vs, conj, point, upoint, term, it_num, points>>
    /\ UNCHANGED <<regvars, funvars>>

num2term_call ==
    /\ "num2term" \notin done
    /\ term' = num2term(num, FsOf(vs), conj)
    /\ done' = done \cup {"num2term"}
    /\ UNCHANGED <<num, vs, conj, point, upoint, pupoint, it_num, points>>
    /\ UNCHANGED <<regvars, funvars>>

\* iter_points(vs): one next() of the generator; it yields a point or, the
\* range being exhausted, stops.
iter_points_next ==
    /\ "iter_points" \notin done
    /\ IF it_num < RangeEnd(vs)
       THEN /\ points' = Append(points, num2point(it_num, vs))
            /\ it_num' = it_num + 1
            /\ UNCHANGED done
       ELSE /\ done' = done \cup {"iter_points"}
            /\ UNCHANGED <<points, it_num>>
    /\ UNCHANGED <<num, vs, conj, point, upoint, pupoint, term>>
    /\ UNCHANGED <<regvars, funvars>>

CodecNext ==
    \/ num2point_call
    \/ num2upoint_call
    \/ point2upoint_call
    \/ num2term_call
    \/ iter_points_next

(***************************************************************************)
(* Function: a Function is represented by its support and the set of the   *)
(* points of its support (each the set of the uniqids mapped to 1) where   *)
(* it is 1.                                                                *)
(***************************************************************************)
MaxDegree == 2
MaxVsLen == 2
MaxArray == 2

Ids(S) == { v.uniqid : v \in S }

FuncsOver(S) == { [sup |-> S, on |-> o] : o \in SUBSET (SUBSET Ids(S)) }

FuncPool ==
    UNION { FuncsOver(S) : S \in { T \in SUBSET VarPool : Cardinality(T) <= MaxDegree } }

\* The Variable v as a Function
VarFunc(v) == [sup |-> {v}, on |-> {{v.uniqid}}]

\* Function.usupport
usupport(g) == Ids(g.sup)

\* Function.degree
degree(g) == Cardinality(g.sup)

\* urestrict of the representation: the uniqids of up[1] are set to 0, those
\* of up[2] to 1; uniqids outside the support are ignored.
urestrict(g, up) ==
    LET fixed == (up[1] \cup up[2]) \cap usupport(g)
    IN  [sup |-> { v \in g.sup : v.uniqid \notin fixed },
         on  |-> { p \ fixed : p \in { q \in g.on : /\ q \cap up[1] = {}
                                                     /\ up[2] \cap usupport(g) \subseteq q } }]

\* __or__ of the representation: the disjunction of g and h
disjoin(g, h) ==
    [sup |-> g.sup \cup h.sup,
     on  |-> { p \in SUBSET Ids(g.sup \cup h.sup) :
                  \/ p \cap usupport(g) \in g.on
                  \/ p \cap usupport(h) \in h.on }]

\* Argument values of cofactors(vs)
VsItem(isvar, v) == [isvar |-> isvar, v |-> v]
VsNone      == [t |-> "NoneType", v |-> NoVariable, items |-> <<>>]
VsVar(v)    == [t |-> "Variable", v |-> v, items |-> <<>>]
VsInt       == [t |-> "int", v |-> NoVariable, items |-> <<>>]
VsList(xs)  == [t |-> "list", v |-> NoVariable, items |-> xs]

VsInputs ==
    {VsNone, VsInt}
    \cup { VsVar(v) : v \in VarPool }
    \cup { VsList([i \in 1..Len(xs) |-> VsItem(TRUE, xs[i])]) :
              xs \in SeqsUpTo(VarPool, MaxVsLen) }
    \cup { VsList(<<VsItem(TRUE, v), VsItem(FALSE, NoVariable)>>) : v \in VarPool }

\* _expect_vars taking None for a Variable
expect_vars_none_as_var(x) ==
    IF x.t \in {"NoneType", "Variable"} THEN [err |-> NoError, list |-> <<x.v>>]
    ELSE IF x.t # "list" THEN [err |-> "TypeError", list |-> <<>>]
    ELSE IF \E i \in 1..Len(x.items) : ~x.items[i].isvar
         THEN [err |-> "TypeError", list |-> <<>>]
         ELSE [err |-> NoError, list |-> [i \in 1..Len(x.items) |-> x.items[i].v]]

\* Function._expect_vars: the list of Variables, or the exception raised
expect_vars(x) ==
    IF x.t = "NoneType" THEN [err |-> NoError, list |-> <<>>]
    ELSE IF x.t = "Variable" THEN [err |-> NoError, list |-> <<x.v>>]
    ELSE IF x.t # "list" THEN [err |-> "TypeError", list |-> <<>>]
    ELSE IF \E i \in 1..Len(x.items) : ~x.items[i].isvar
         THEN [err |-> "TypeError", list |-> <<>>]
         ELSE [err |-> NoError, list |-> [i \in 1..Len(x.items) |-> x.items[i].v]]

\* iter_upoints(vs), all of it
iter_upoints(xs) == [k \in 1..(2 ^ Len(xs)) |-> num2upoint(k - 1, xs)]

\* Function.iter_cofactors(vs), all of it, for a vs that _expect_vars accepts
iter_cofactors(g, x) ==
    LET ups == iter_upoints(expect_vars(x).list)
    IN  [k \in 1..Len(ups) |-> urestrict(g, ups[k])]

\* Function.cofactors(vs)
cofactors(g, x) ==
    IF expect_vars(x).err # NoError
    THEN [err |-> expect_vars(x).err, value |-> <<>>]
    ELSE [err |-> NoError, value |-> iter_cofactors(g, x)]

\* The operands of +: a Function, an farray (the sequence of its items, as
\* farray.flat gives them) or something else.
OpFunc(g)    == [kind |-> "Function", items |-> <<g>>]
OpArray(xs)  == [kind |-> "farray", items |-> xs]
OpInt        == [kind |-> "int", items |-> <<>>]
OpTypeError  == [kind |-> "TypeError", items |-> <<>>]
NoOp         == [kind |-> "none", items |-> <<>>]

ArrayItems == { VarFunc(v) : v \in { w \in VarPool : w.uniqid <= 2 } }

OtherInputs ==
    {OpInt}
    \cup { OpFunc(g) : g \in FuncsOver({}) \cup { VarFunc(v) : v \in VarPool } }
    \cup { OpArray(xs) : xs \in SeqsUpTo(ArrayItems, MaxArray) }

\* __add__ returning the disjunction of two Functions
add_as_or(g, o) ==
    IF o.kind = "Function" THEN OpFunc(disjoin(g, o.items[1]))
    ELSE IF o.kind = "farray" THEN OpArray(<<g>> \o o.items)
    ELSE OpTypeError

\* Function.__add__
add(g, o) ==
    IF o.kind = "Function" THEN OpArray(<<g>> \o <<o.items[1]>>)
    ELSE IF o.kind = "farray" THEN OpArray(<<g>> \o o.items)
    ELSE OpTypeError

\* Function.__radd__
radd(g, o) ==
    IF o.kind = "Function" THEN OpArray(<<o.items[1]>> \o <<g>>)
    ELSE IF o.kind = "farray" THEN OpArray(o.items \o <<g>>)
    ELSE OpTypeError

FuncInputs ==
    /\ self \in FuncPool
    /\ vsarg \in VsInputs
    /\ other \in OtherInputs
    /\ fop = "none"
    /\ cofs = [err |-> NoError, value |-> <<>>]
    /\ sum = NoOp

IdleFunc ==
    /\ self = [sup |-> {}, on |-> {}]
    /\ vsarg = VsNone
    /\ other = OpInt
    /\ fop = "none"
    /\ cofs = [err |-> NoError, value |-> <<>>]
    /\ sum = NoOp

cofactors_call ==
    /\ fop = "none"
    /\ cofs' = cofactors(self, vsarg)
    /\ fop' = "cofactors"
    /\ UNCHANGED <<self, vsarg, other, sum>>
    /\ UNCHANGED <<regvars, codvars>>

add_call ==
    /\ fop = "none"
    /\ sum' = add(self, other)
    /\ fop' = "add"
    /\ UNCHANGED <<self, vsarg, other, cofs>>
    /\ UNCHANGED <<regvars, codvars>>

radd_call ==
    /\ fop = "none"
    /\ sum' = radd(self, other)
    /\ fop' = "radd"
    /\ UNCHANGED <<self, vsarg, other, cofs>>
    /\ UNCHANGED <<regvars, codvars>>

FuncNext ==
    \/ cofactors_call
    \/ add_call
    \/ radd_call

IdleRegistry == InitRegistry([t \in Threads |-> 0], {})

\* One caller: each call of var returns before the next begins.
InitSeq ==
    /\ InitRegistry([t \in Threads |-> IF t = 1 THEN MaxSeqCalls ELSE 0], Args)
    /\ IdleCodec /\ IdleFunc
SpecSeq == InitSeq /\ [][RegNext]_vars

\* Two callers in concurrent threads.
InitConc ==
    /\ InitRegistry([t \in Threads |-> MaxConcCalls], ConcArgs)
    /\ IdleCodec /\ IdleFunc
SpecConc == InitConc /\ [][RegNext]_vars

\* The conversions applied to any input.
InitCodec == CodecInputs /\ IdleRegistry /\ IdleFunc
SpecCodec == InitCodec /\ [][CodecNext]_vars

\* The derived operations applied to any Function.
InitFunc == FuncInputs /\ IdleRegistry /\ IdleCodec
SpecFunc == InitFunc /\ [][FuncNext]_vars

(***************************************************************************)
(* Properties of the registry                                              *)
(***************************************************************************)
KeyA  == [names |-> << <<"a">> >>, indices |-> <<>>]
KeyA0 == [names |-> << <<"a">> >>, indices |-> <<0>>]

\* C1: after sequential calls of var with valid arguments, two calls return
\* Variables with equal uniqid exactly when their (names, indices) are equal.
C1_IdentityByKey ==
    \A i, j \in 1..Len(log) :
        (log[i].key = log[j].key) <=> (log[i].uniqid = log[j].uniqid)

\* var("a") and var(("a",)) have returned the same uniqid, var("a", 0) another.
C1_Witness ==
    \E i, j, k \in 1..Len(log) :
        /\ log[i].arg # log[j].arg
        /\ log[i].key = KeyA /\ log[j].key = KeyA
        /\ log[k].key = KeyA0
        /\ log[i].uniqid = log[j].uniqid
        /\ log[k].uniqid # log[i].uniqid

\* C2: two concurrent calls of var with the same key never return two
\* different uniqids.
C2_SameKeySameId ==
    \A i, j \in 1..Len(log) :
        log[i].key = log[j].key => log[i].uniqid = log[j].uniqid

\* The statements of Variable.__init__ inside the with block.
InCritical(t) ==
    pc[t] \in {"init_lookup", "init_read", "init_load", "init_store", "init_insert",
               "init_exit"}

\* At most one caller is inside the with block.
MutualExclusion == \A t, u \in Threads : InCritical(t) /\ InCritical(u) => t = u

\* C3: the lookup-or-insert-and-increment runs as one atomic unit, so that
\* concurrent calls of var with different keys never get the same uniqid.
C3_DistinctKeysDistinctIds ==
    /\ \A i, j \in 1..Len(log) :
          log[i].key # log[j].key => log[i].uniqid # log[j].uniqid
    /\ \A k1, k2 \in DOMAIN UNIQIDS : k1 # k2 => UNIQIDS[k1] # UNIQIDS[k2]

\* The distinct keys of the calls of l, in the order of their first call.
RECURSIVE FirstKeys(_)
FirstKeys(l) ==
    IF l = <<>> THEN <<>>
    ELSE LET r == FirstKeys(SubSeq(l, 1, Len(l) - 1))
             k == l[Len(l)].key
         IN  IF \E i \in 1..Len(r) : r[i] = k THEN r ELSE Append(r, k)

\* The k-th distinct key has uniqid k, in the tables and in every call that
\* returned it, and the counter is one more than the number of keys.
GaplessIds ==
    LET fk == FirstKeys(log)
    IN  /\ \A k \in 1..Len(fk) :
            /\ fk[k] \in DOMAIN UNIQIDS /\ UNIQIDS[fk[k]] = k
            /\ fk[k] \in DOMAIN VARIABLES_ /\ VARIABLES_[fk[k]].uniqid = k
            /\ \A i \in 1..Len(log) : log[i].key = fk[k] => log[i].uniqid = k
        /\ (\A t \in Threads : pc[t] = "idle") => COUNT = Len(fk) + 1

\* A call for a key that is interned changes neither the counter nor the tables.
HitChangesNothing ==
    \A t \in Threads :
        pc[t] # "idle" /\ key[t] \in DOMAIN VARIABLES_
            => UNCHANGED <<COUNT, UNIQIDS, VARIABLES_>>

\* The uniqid of a key never changes.
IdsAreStable ==
    /\ \A k \in DOMAIN UNIQIDS : k \in DOMAIN UNIQIDS' /\ UNIQIDS'[k] = UNIQIDS[k]
    /\ \A k \in DOMAIN VARIABLES_ :
          k \in DOMAIN VARIABLES_' /\ VARIABLES_'[k] = VARIABLES_[k]

\* C10: in sequential calls the k-th distinct key gets uniqid k (a counter
\* that starts at 1, no gaps), a call for an interned key returns its uniqid
\* and changes neither counter nor table, and the uniqid of a key never changes.
C10_GaplessStableIds ==
    /\ []GaplessIds
    /\ [][HitChangesNothing /\ IdsAreStable]_vars

\* Three calls returned: the first and third for the same key (a hit), the
\* second for another key, with uniqids 1, 2, 1, and the counter at 3.
C10_Witness ==
    /\ Len(log) = 3
    /\ log[1].key = log[3].key /\ log[2].key # log[1].key
    /\ log[1].uniqid = 1 /\ log[2].uniqid = 2 /\ log[3].uniqid = 1
    /\ COUNT = 3

(***************************************************************************)
(* Properties of the conversions                                           *)
(***************************************************************************)
VarOf(id) == CHOOSE v \in VarPool : v.uniqid = id
a == VarOf(1)
b == VarOf(2)
c == VarOf(3)

\* Bit i (from 0) of n is 1.
BitSet(n, i) == (n \div (2 ^ i)) % 2 = 1

NoRepeats(xs) == \A i, j \in 1..Len(xs) : xs[i] = xs[j] => i = j

\* C4 as stated: without conj, literal i is fs[i] if bit i of num is 0 and
\* ~fs[i] if it is 1; with conj the opposite.
C4_PositiveOnZero ==
    "num2term" \in done =>
        \A i \in 1..Len(vs) :
            term[i] = IF BitSet(num, i - 1) = conj THEN Lit(vs[i]) ELSE Invert(Lit(vs[i]))

\* C4 amended: without conj, literal i is fs[i] if bit i of num is 1 and
\* ~fs[i] if it is 0; with conj the opposite.
C4_PositiveOnOne ==
    "num2term" \in done =>
        /\ Len(term) = Len(vs)
        /\ \A i \in 1..Len(vs) :
            term[i] = IF BitSet(num, i - 1) # conj THEN Lit(vs[i]) ELSE Invert(Lit(vs[i]))

\* num2term(5, (a, b, c)) = (a, ~b, c)
C4_Witness ==
    /\ "num2term" \in done /\ ~conj /\ num = 5 /\ vs = <<a, b, c>>
    /\ term = <<Lit(a), Invert(Lit(b)), Lit(c)>>

\* C5: a minterm has literal i positive iff bit i of num is 1 and negated
\* otherwise, a maxterm inverts the rule; num2term(2, (a, b)) = (~a, b).
C5_MintermMaxterm ==
    "num2term" \in done =>
        /\ \A i \in 1..Len(vs) :
            /\ ~conj => (term[i] = Lit(vs[i]) <=> BitSet(num, i - 1))
            /\ conj => (term[i] = Lit(vs[i]) <=> ~BitSet(num, i - 1))
            /\ term[i] # Lit(vs[i]) => term[i] = Invert(Lit(vs[i]))
        /\ (num = 2 /\ vs = <<a, b>> /\ ~conj) => term = <<Invert(Lit(a)), Lit(b)>>

\* num2term(2, (a, b)) has been computed.
C5_Witness ==
    /\ "num2term" \in done /\ ~conj /\ num = 2 /\ vs = <<a, b>>
    /\ term = <<Invert(Lit(a)), Lit(b)>>

BothUpoints == {"point2upoint", "num2upoint"} \subseteq done

\* C6 as stated: for every vs of length N and 0 <= num < 2^N,
\* point2upoint(num2point(num, vs)) = num2upoint(num, vs).
C6_RoundTripAnyVs ==
    BothUpoints /\ num < 2 ^ Len(vs) => pupoint = upoint

\* C6 amended: the same for every vs in which no Variable occurs twice.
C6_RoundTripDistinctVs ==
    BothUpoints /\ num < 2 ^ Len(vs) /\ NoRepeats(vs) => pupoint = upoint

\* num = 5, vs = (a, b, c): both give ({2}, {1, 3}).
C6_Witness ==
    /\ BothUpoints /\ num = 5 /\ vs = <<a, b, c>>
    /\ pupoint = << {2}, {1, 3} >> /\ upoint = << {2}, {1, 3} >>

\* The points yielded so far are num2point(0, vs), num2point(1, vs), ...; the
\* generator stops after 2^N points; they are pairwise distinct and are all
\* the assignments of bits to the Variables of vs.
EnumeratesAll ==
    /\ Len(points) <= 2 ^ Len(vs)
    /\ \A k \in 1..Len(points) : points[k] = num2point(k - 1, vs)
    /\ "iter_points" \in done =>
        /\ Len(points) = 2 ^ Len(vs)
        /\ \A j, k \in 1..Len(points) : points[j] = points[k] => j = k
        /\ { points[k] : k \in 1..Len(points) }
               = [{ vs[i] : i \in 1..Len(vs) } -> {0, 1}]

\* C7 as stated: iter_points(vs) yields exactly 2^N pairwise distinct points,
\* every assignment once, the k-th being num2point(k, vs).
C7_EnumerationAnyVs == EnumeratesAll

\* C7 amended: the same for every vs in which no Variable occurs twice; the
\* k-th point then maps vs[i] to bit i of k.
C7_EnumerationDistinctVs ==
    NoRepeats(vs) =>
        /\ EnumeratesAll
        /\ \A k \in 1..Len(points) : \A i \in 1..Len(vs) :
              points[k][vs[i]] = IF BitSet(k - 1, i - 1) THEN 1 ELSE 0

\* iter_points((a, b, c)) is exhausted after 8 points.
C7_Witness ==
    /\ "iter_points" \in done /\ vs = <<a, b, c>> /\ Len(points) = 8
    /\ points[7] = (a :> 0) @@ (b :> 1) @@ (c :> 1)

(***************************************************************************)
(* Properties of the derived operations                                    *)
(***************************************************************************)
\* The restrictions of g over all the assignments to its support.
AllRestrictions(g) ==
    { urestrict(g, << usupport(g) \ ones, ones >>) : ones \in SUBSET usupport(g) }

\* C8 as stated: cofactors() without vs gives the restrictions of the function
\* over all 2^degree assignments to its support.
C8_DefaultIsSupport ==
    fop = "cofactors" /\ vsarg = VsNone =>
        /\ cofs.err = NoError
        /\ Len(cofs.value) = 2 ^ degree(self)
        /\ { cofs.value[k] : k \in 1..Len(cofs.value) } = AllRestrictions(self)

\* C8 amended: cofactors() without vs takes vs to be empty: it gives one
\* cofactor, the function restricted by the empty upoint, which is the
\* function itself.
C8_DefaultIsEmpty ==
    fop = "cofactors" /\ vsarg = VsNone =>
        /\ cofs.err = NoError
        /\ Len(cofs.value) = 1
        /\ cofs.value[1] = self

\* cofactors() of a function of degree 2 has returned (f, ).
C8_Witness ==
    /\ fop = "cofactors" /\ vsarg = VsNone
    /\ self = [sup |-> {a, b}, on |-> {{1}, {1, 2}}]
    /\ cofs.value = <<self>>

\* C9 as stated: f + g for two Functions is their disjunction; the result is
\* an farray only when an operand is an farray.
C9_PlusIsOr ==
    /\ fop \in {"add", "radd"} /\ other.kind = "Function"
          => sum = OpFunc(disjoin(self, other.items[1]))
    /\ fop = "add" /\ other.kind = "farray" => sum = OpArray(<<self>> \o other.items)
    /\ fop = "radd" /\ other.kind = "farray" => sum = OpArray(other.items \o <<self>>)

\* C9 amended: f + g for two Functions is the farray of f and g, in the order
\* of the operands, and f + an farray is the farray with f put in front (f
\* put last when f is the right operand); any other operand raises a
\* TypeError; + never gives the disjunction.
C9_PlusIsArray ==
    /\ fop = "add" /\ other.kind = "Function" => sum = OpArray(<<self, other.items[1]>>)
    /\ fop = "radd" /\ other.kind = "Function" => sum = OpArray(<<other.items[1], self>>)
    /\ fop = "add" /\ other.kind = "farray" => sum = OpArray(<<self>> \o other.items)
    /\ fop = "radd" /\ other.kind = "farray" => sum = OpArray(other.items \o <<self>>)
    /\ fop \in {"add", "radd"} /\ other.kind \notin {"Function", "farray"}
          => sum = OpTypeError

\* a + b has returned farray([a, b]), which is not a | b.
C9_Witness ==
    /\ fop = "add" /\ self = VarFunc(a) /\ other = OpFunc(VarFunc(b))
    /\ sum = OpArray(<<VarFunc(a), VarFunc(b)>>)
    /\ sum # OpFunc(disjoin(self, VarFunc(b)))

=============================================================================
